---------------------------- MODULE Spec2Model ----------------------------
(***************************************************************************)
(* PicoRV32 command-line testbench (src/testbench_cli.cc): argument        *)
(* parsing, ElfLoader::load and the simulation loop of main, as one state  *)
(* machine.  The device-under-test (the Verilated model) is opaque: each   *)
(* eval() may raise the finish flag and drives the trace pins freely.      *)
(***************************************************************************)
EXTENDS Integers, Sequences, FiniteSets, TLC

(***************************************************************************)
(* Bounds of the model.                                                    *)
(***************************************************************************)
\* largest cycle budget given on the command line
MaxTimeout == 2
\* largest number of arguments after the plusargs
MaxArgs == 2
\* largest number of program headers of an image
MaxSegs == 2

(***************************************************************************)
(* Program constants.                                                      *)
(***************************************************************************)
MEM_SIZE == 131072
DefaultTimeout == 1000000
ResetTime == 200
TimeStep == 5
\* <elf.h>
SELFMAG == 4
EI_CLASS == 4
ELFCLASS32 == 1
EM_RISCV == 243
PT_LOAD == 1
EhdrSize == 52
PhdrSize == 32

(***************************************************************************)
(* C strings, as tuples of characters.                                     *)
(***************************************************************************)
DigitChars == <<"0", "1", "2", "3", "4", "5", "6", "7", "8", "9">>

IsDigit(c) == \E k \in 1..10 : DigitChars[k] = c

DigitVal(c) == (CHOOSE k \in 1..10 : DigitChars[k] = c) - 1

IsSpace(c) == c \in {" ", "\t", "\n"}

RECURSIVE SkipSpace(_, _)
SkipSpace(s, i) ==
    IF i <= Len(s) /\ IsSpace(s[i]) THEN SkipSpace(s, i + 1) ELSE i

RECURSIVE AtoiDigits(_, _, _)
AtoiDigits(s, i, acc) ==
    IF i <= Len(s) /\ IsDigit(s[i])
    THEN AtoiDigits(s, i + 1, acc * 10 + DigitVal(s[i]))
    ELSE acc

\* atoi(3): leading white space, an optional sign, then the leading digits;
\* whatever follows the digits is ignored, and no digits at all give 0.
atoi(s) ==
    LET i == SkipSpace(s, 1)
        neg == i <= Len(s) /\ s[i] = "-"
        j == IF i <= Len(s) /\ s[i] \in {"-", "+"} THEN i + 1 ELSE i
        v == AtoiDigits(s, j, 0)
    IN  IF neg THEN 0 - v ELSE v

\* strncmp(s, p, Len(p)) == 0
HasPrefix(s, p) == Len(s) >= Len(p) /\ SubSeq(s, 1, Len(p)) = p

Tail10(s) == SubSeq(s, 11, Len(s))

RECURSIVE Decimal(_)
Decimal(n) ==
    IF n < 10 THEN <<DigitChars[n + 1]>>
    ELSE Decimal(n \div 10) \o <<DigitChars[(n % 10) + 1]>>

(***************************************************************************)
(* Unsigned machine integers.  A value v is kept as <<v \div 65536,        *)
(* v % 65536>>, since a uint32_t does not fit the checker's integers.      *)
(* uint32_t arithmetic wraps (Wrap32); pointer arithmetic is 64 bits wide  *)
(* and does not.                                                           *)
(***************************************************************************)
U(n) == <<n \div 65536, n % 65536>>

ToInt(x) == x[1] * 65536 + x[2]

UAdd(x, y) == <<x[1] + y[1] + ((x[2] + y[2]) \div 65536), (x[2] + y[2]) % 65536>>

\* x - y, for y <= x
USub(x, y) ==
    IF x[2] >= y[2] THEN <<x[1] - y[1], x[2] - y[2]>>
    ELSE <<x[1] - y[1] - 1, x[2] + 65536 - y[2]>>

ULt(x, y) == x[1] < y[1] \/ (x[1] = y[1] /\ x[2] < y[2])

ULe(x, y) == x = y \/ ULt(x, y)

Wrap32(x) == <<x[1] % 65536, x[2]>>

UINT32_MAX == <<65535, 65535>>

OptHelpShort == <<"-", "h">>
OptHelpLong == <<"-", "-", "h", "e", "l", "p">>
OptTimeout == <<"-", "-", "t", "i", "m", "e", "o", "u", "t", "=">>
PlusVcd == <<"+", "v", "c", "d">>
PlusTrace == <<"+", "t", "r", "a", "c", "e">>


(***************************************************************************)
(* The command lines tried: plusargs first, then at most MaxArgs further   *)
(* arguments.  A command line that reaches the simulation names a budget,  *)
(* so that the loop is not run for the default 1000000 cycles.             *)
(***************************************************************************)
ElfName == <<"a", ".", "e", "l", "f">>

TimeoutTexts ==
    { Decimal(n) : n \in 1..MaxTimeout }
        \cup { <<"0">>, <<"-", "5">>, <<"x">>, <<"2", "x">> }

RestArgs ==
    { OptHelpShort, <<"-", "x">>, ElfName } \cup { OptTimeout \o x : x \in TimeoutTexts }

PlusArgs == { <<>>, <<PlusVcd>>, <<PlusTrace>>, <<PlusVcd, PlusTrace>> }

SeqsUpTo(S, n) == UNION { [1..k -> S] : k \in 0..n }

NamesBudget(args) == \E k \in 1..Len(args) : HasPrefix(args[k], OptTimeout)

Argvs ==
    { p \o r : p \in PlusArgs, r \in { q \in SeqsUpTo(RestArgs, MaxArgs) : NamesBudget(q) } }

(***************************************************************************)
(* The image file, byte by byte (<elf.h>: Elf32_Ehdr, Elf32_Phdr; all      *)
(* fields little-endian).                                                  *)
(***************************************************************************)
Le16(v) == <<v % 256, (v \div 256) % 256>>

Le32(x) == Le16(x[2]) \o Le16(x[1])

Zeros(n) == [k \in 1..n |-> 0]

ELFMAG == <<127, 69, 76, 70>>

Ehdr(magic, class, machine, phnum) ==
    magic \o <<class, 1, 1>> \o Zeros(9)     \* e_ident[16]
        \o Le16(2) \o Le16(machine)          \* e_type, e_machine
        \o Le32(U(1)) \o Le32(U(0))          \* e_version, e_entry
        \o Le32(U(EhdrSize)) \o Le32(U(0))   \* e_phoff, e_shoff
        \o Le32(U(0)) \o Le16(EhdrSize)      \* e_flags, e_ehsize
        \o Le16(PhdrSize) \o Le16(phnum)     \* e_phentsize, e_phnum
        \o Le16(0) \o Le16(0) \o Le16(0)     \* e_shentsize, e_shnum, e_shstrndx

Phdr(s, dataoff) ==
    Le32(U(s.type)) \o Le32(U(dataoff + s.rel)) \o Le32(s.vaddr) \o Le32(s.paddr)
        \o Le32(s.filesz) \o Le32(s.memsz) \o Le32(U(5)) \o Le32(U(4))

RECURSIVE Phdrs(_, _)
Phdrs(segs, dataoff) ==
    IF segs = <<>> THEN <<>> ELSE Phdr(Head(segs), dataoff) \o Phdrs(Tail(segs), dataoff)

\* the bytes that follow the program-header table: the segments' contents
ImageData == <<17, 34, 51, 68>>

Image(magic, class, machine, segs) ==
    Ehdr(magic, class, machine, Len(segs))
        \o Phdrs(segs, EhdrSize + PhdrSize * Len(segs)) \o ImageData

Seg(type, rel, vaddr, paddr, filesz, memsz) ==
    [type |-> type, rel |-> rel, vaddr |-> vaddr, paddr |-> paddr,
     filesz |-> filesz, memsz |-> memsz]

\* The program headers tried.  rel is p_offset counted from the first byte
\* after the program-header table.
SegChoices ==
    { Seg(PT_LOAD, 0, U(0), U(0), U(2), U(4)),             \* .text+.bss at 0 (vaddr)
      Seg(PT_LOAD, 2, U(6), U(4), U(2), U(2)),             \* placed at p_paddr
      Seg(PT_LOAD, 2, U(1), U(0), U(2), U(2)),             \* overlaps the first one
      Seg(PT_LOAD, 0, U(2), U(0), U(0), U(3)),             \* .bss only
      Seg(PT_LOAD, 1, U(0), U(MEM_SIZE - 2), U(1), U(2)),  \* ends at the last byte
      Seg(PT_LOAD, 0, U(0), U(MEM_SIZE - 1), U(0), U(2)),  \* one byte too long
      Seg(PT_LOAD, 0, U(MEM_SIZE), U(0), U(0), U(0)),      \* starts at the end
      Seg(PT_LOAD, 0, U(0), U(1), U(0), UINT32_MAX),       \* 32-bit sum wraps to 0
      Seg(PT_LOAD, 0, U(0), U(MEM_SIZE - 1), U(2), U(1)),  \* p_filesz > p_memsz
      Seg(PT_LOAD, 3, U(0), U(3), U(2), U(2)),             \* contents end past the file
      Seg(0, 0, UINT32_MAX, UINT32_MAX, U(1), U(1)) } \* PT_NULL: not loadable

BadMagic == <<127, 69, 76, 71>>

\* a file that ends after e_ident[EI_CLASS]
Truncated == SubSeq(Ehdr(ELFMAG, ELFCLASS32, EM_RISCV, 0), 1, EI_CLASS + 1)

Images ==
    { Image(ELFMAG, ELFCLASS32, m, segs) :
        m \in {EM_RISCV}, segs \in SeqsUpTo(SegChoices, MaxSegs) }
    \cup { Image(BadMagic, ELFCLASS32, EM_RISCV, <<>>),
           Image(ELFMAG, 2, EM_RISCV, <<>>),        \* ELFCLASS64
           Image(ELFMAG, ELFCLASS32, 3, <<Seg(PT_LOAD, 0, U(0), U(0), U(2), U(4))>>),
           Truncated }

\* the images tried with every command line
FewImages ==
    { Image(ELFMAG, ELFCLASS32, EM_RISCV,
            <<Seg(PT_LOAD, 0, U(0), U(0), U(2), U(4)), Seg(PT_LOAD, 2, U(6), U(4), U(2), U(2))>>),
      Image(ELFMAG, ELFCLASS32, EM_RISCV,
            <<Seg(PT_LOAD, 0, U(0), U(0), U(2), U(4)),
              Seg(PT_LOAD, 0, U(0), U(MEM_SIZE - 1), U(0), U(2))>>),
      Image(BadMagic, ELFCLASS32, EM_RISCV, <<>>),
      Image(ELFMAG, 2, EM_RISCV, <<>>) }

\* what the buffer may hold before the load
Fills == {0, 170}

(***************************************************************************)
(* Reading the mapped file.  Offsets count from 0.                         *)
(***************************************************************************)
\* whether the n bytes at offset off lie in the file
InFile(f, off, n) == ULe(UAdd(off, n), U(Len(f)))

\* A byte past the end of the file but inside the mapping's last page reads 0.
FileByte(f, off) == IF ULt(off, U(Len(f))) THEN f[ToInt(off) + 1] ELSE 0

Rd16(f, off) == FileByte(f, U(off)) + 256 * FileByte(f, U(off + 1))

Rd32(f, off) == <<Rd16(f, off + 2), Rd16(f, off)>>

e_ident(f) == [k \in 0..15 |-> FileByte(f, U(k))]
e_machine(f) == Rd16(f, 18)
e_phoff(f) == Rd32(f, 28)
e_phnum(f) == Rd16(f, 44)

\* phdr[k] of the table at e_phoff
phdr(f, k) ==
    LET at == ToInt(e_phoff(f)) + PhdrSize * k
    IN  [p_type |-> Rd32(f, at), p_offset |-> Rd32(f, at + 4),
         p_vaddr |-> Rd32(f, at + 8), p_paddr |-> Rd32(f, at + 12),
         p_filesz |-> Rd32(f, at + 16), p_memsz |-> Rd32(f, at + 20)]

(***************************************************************************)
(* The device's memory buffer.  The model keeps the bytes at the observed  *)
(* addresses: the first and the last bytes of the buffer.  dst counts      *)
(* bytes from the start of the buffer.                                     *)
(***************************************************************************)
Observed == (0 .. 7) \cup ((MEM_SIZE - 4) .. (MEM_SIZE - 1))

\* whether byte a is one of the n bytes at dst
Within(a, dst, n) == ULe(dst, U(a)) /\ ULt(U(a), UAdd(dst, n))

\* a memset that writes nothing
memsetNothing(m, dst, c, n) == m

memset(m, dst, c, n) ==
    [a \in DOMAIN m |-> IF Within(a, dst, n) THEN c ELSE m[a]]

memcpy(m, dst, f, src, n) ==
    [a \in DOMAIN m |->
        IF Within(a, dst, n) THEN FileByte(f, UAdd(src, USub(U(a), dst))) ELSE m[a]]

(***************************************************************************)
(* State.                                                                  *)
(***************************************************************************)
VARIABLES
    argv,            \* argv[1..argc-1]
    file,            \* the bytes of the file the image path names
    pc,              \* where main is
    exit_code,       \* the process's exit status, -1 while it runs
    argi,            \* main's i (line 159)
    elf_file,        \* <<>> for nullptr, <<name>> otherwise
    timeout_cycles,
    top,             \* whether the Vpicorv32_wrapper exists
    memory,          \* top->picorv32_wrapper->mem->memory, at the observed addresses
    loader,          \* ElfLoader's fields: fd, mapped_file, file_size
    ph,              \* load's i (line 94)
    tfp,             \* whether tfp is non-null
    trace_fd,        \* whether trace_fd is non-null
    clk, resetn,     \* top->clk, top->resetn
    t, cycle, timed_out,
    gotFinish,       \* Verilated::gotFinish()
    trace_valid, trace_data,   \* top->trace_valid, top->trace_data
    vcd_out,         \* testbench.vcd: the times dumped
    trace_out,       \* testbench.trace: the values printed
    open_files,      \* the files the process holds open
    mapped,          \* whether the image is mapped
    \* history, for stating the properties
    steps,           \* iterations of the simulation loop so far
    writes,          \* the byte ranges load's per-segment memcpy/memset wrote
    opened,          \* the files ever opened
    trace_at,        \* the value of cycle before each record of trace_out was printed
    load_result,     \* "none", "ok", "failed"
    before,          \* the buffer as it was when load was called
    shadow           \* the same run of the same device with one sink less

vars ==
    <<argv, file, pc, exit_code, argi, elf_file, timeout_cycles, top, memory, loader, ph,
      tfp, trace_fd, clk, resetn, t, cycle, timed_out, gotFinish, trace_valid, trace_data,
      vcd_out, trace_out, open_files, mapped, steps, writes, opened, trace_at, load_result,
      before, shadow>>

argsVars == <<argi, elf_file, timeout_cycles>>
loadVars == <<memory, loader, ph, writes, load_result, mapped>>
simVars ==
    <<tfp, trace_fd, clk, resetn, t, cycle, timed_out, gotFinish, trace_valid, trace_data,
      vcd_out, trace_out, steps, trace_at, shadow>>

\* The runs compared with the run of main: the same command line without
\* +vcd, and the same command line without +trace.
Shadows == {"no vcd", "no trace"}

\* main's locals from line 205 on, and what it returns, in such a run
NoRun ==
    [tfp |-> FALSE, trace_fd |-> FALSE, pc |-> "setup", clk |-> 0, resetn |-> 0, t |-> 0,
     cycle |-> 0, timed_out |-> FALSE, exit_code |-> -1, vcd_out |-> <<>>, trace_out |-> <<>>]

NoLoader == [fd |-> -1, mapped_file |-> "nullptr", file_size |-> 0]

InitWith(argvs, images, fills) ==
    /\ argv \in argvs
    /\ file \in images
    /\ pc = "args"
    /\ exit_code = -1
    /\ argi = 1
    /\ elf_file = <<>>
    /\ timeout_cycles = DefaultTimeout
    /\ top = FALSE
    /\ \E c \in fills : memory = [a \in Observed |-> c]
    /\ loader = NoLoader
    /\ ph = 0
    /\ tfp = FALSE
    /\ trace_fd = FALSE
    /\ clk = 0
    /\ resetn = 0
    /\ t = 0
    /\ cycle = 0
    /\ timed_out = FALSE
    /\ gotFinish = FALSE
    /\ trace_valid = 0
    /\ trace_data = 0
    /\ vcd_out = <<>>
    /\ trace_out = <<>>
    /\ open_files = {}
    /\ mapped = FALSE
    /\ steps = 0
    /\ writes = <<>>
    /\ opened = {}
    /\ trace_at = <<>>
    /\ load_result = "none"
    /\ before = memory
    /\ shadow = [k \in Shadows |-> NoRun]

(***************************************************************************)
(* main, lines 159-184: one argument.                                      *)
(***************************************************************************)
\* what the branch of lines 160-183 does with argument a when the budget is
\* tmo and the image path elf: the exit status (-1 to go on), the budget and
\* the image path after it
ParseOne(a, tmo, elf) ==
    IF a = OptHelpShort \/ a = OptHelpLong THEN [exit |-> 0, timeout |-> tmo, file |-> elf]
    ELSE IF HasPrefix(a, OptTimeout) THEN
        [exit |-> IF atoi(Tail10(a)) <= 0 THEN 1 ELSE -1,
         timeout |-> atoi(Tail10(a)), file |-> elf]
    ELSE IF Len(a) > 0 /\ a[1] = "+" THEN [exit |-> -1, timeout |-> tmo, file |-> elf]
    ELSE IF Len(a) > 0 /\ a[1] = "-" THEN [exit |-> 1, timeout |-> tmo, file |-> elf]
    ELSE IF elf # <<>> THEN [exit |-> 1, timeout |-> tmo, file |-> elf]
    ELSE [exit |-> -1, timeout |-> tmo, file |-> <<a>>]

ParseArg ==
    /\ pc = "args"
    /\ argi <= Len(argv)
    /\ LET r == ParseOne(argv[argi], timeout_cycles, elf_file)
       IN  /\ timeout_cycles' = r.timeout
           /\ elf_file' = r.file
           /\ IF r.exit >= 0
              THEN /\ pc' = "exit"
                   /\ exit_code' = r.exit
                   /\ UNCHANGED argi
              ELSE /\ argi' = argi + 1
                   /\ UNCHANGED <<pc, exit_code>>
    /\ UNCHANGED <<argv, file, before, top, open_files, opened>>
    /\ UNCHANGED loadVars
    /\ UNCHANGED simVars

(***************************************************************************)
(* main, lines 186-194: no image named, or the device is created.          *)
(***************************************************************************)
ArgsDone ==
    /\ pc = "args"
    /\ argi > Len(argv)
    /\ IF elf_file = <<>>
       THEN /\ pc' = "exit"
            /\ exit_code' = 1
            /\ UNCHANGED top
       ELSE /\ pc' = "load"
            /\ top' = TRUE
            /\ UNCHANGED exit_code
    /\ UNCHANGED <<argv, file, before, open_files, opened>>
    /\ UNCHANGED argsVars
    /\ UNCHANGED loadVars
    /\ UNCHANGED simVars

(***************************************************************************)
(* ElfLoader::load, lines 46-93: open, fstat, mmap, the header checks and  *)
(* the zeroing of the buffer.  The environment decides whether open, fstat *)
(* and mmap succeed.                                                       *)
(***************************************************************************)
IoOutcomes == {"ok", "open fails", "fstat fails", "mmap fails"}

MagicOk(f) == \A k \in 0..(SELFMAG - 1) : e_ident(f)[k] = ELFMAG[k + 1]

ClassOk(f) == e_ident(f)[EI_CLASS] = ELFCLASS32

LoadOpen ==
    /\ pc = "load"
    /\ \E io \in IoOutcomes :
        /\ loader' = [fd |-> IF io = "open fails" THEN -1 ELSE 3,
                      mapped_file |-> CASE io = "ok" -> "mapped"
                                        [] io = "mmap fails" -> "MAP_FAILED"
                                        [] OTHER -> "nullptr",
                      file_size |-> IF io \in {"ok", "mmap fails"} THEN Len(file) ELSE 0]
        /\ open_files' = IF io = "open fails" THEN open_files ELSE open_files \cup {"elf"}
        /\ opened' = IF io = "open fails" THEN opened ELSE opened \cup {"elf"}
        /\ mapped' = (io = "ok")
        /\ before' = memory
        /\ IF io = "ok" /\ MagicOk(file) /\ ClassOk(file)
           THEN /\ memory' = memset(memory, U(0), 0, U(MEM_SIZE))
                /\ ph' = 0
                /\ pc' = "phdr"
                /\ UNCHANGED load_result
           ELSE /\ pc' = "load_failed"
                /\ load_result' = "failed"
                /\ UNCHANGED <<memory, ph>>
    /\ UNCHANGED <<argv, file, exit_code, top, writes>>
    /\ UNCHANGED argsVars
    /\ UNCHANGED simVars

(***************************************************************************)
(* ElfLoader::load, lines 94-128: program header i.                        *)
(***************************************************************************)
\* the placement taken from the virtual address alone
LoadAddrVirtual(h) == h.p_vaddr

\* line 103
LoadAddr(h) == IF h.p_paddr # U(0) THEN h.p_paddr ELSE h.p_vaddr

\* line 109, in uint32_t arithmetic
OutOfBounds(load_addr, memsz) ==
    \/ ULe(U(MEM_SIZE), load_addr)
    \/ ULt(U(MEM_SIZE), Wrap32(UAdd(load_addr, memsz)))

\* lines 116-120: the memcpy call, if any
CopyCalls(h) ==
    IF ULt(U(0), h.p_filesz)
    THEN <<[call |-> "memcpy", dst |-> LoadAddr(h), src |-> h.p_offset, n |-> h.p_filesz]>>
    ELSE <<>>

\* lines 123-126: the memset call, if any
ZeroCalls(h) ==
    IF ULt(h.p_filesz, h.p_memsz)
    THEN <<[call |-> "memset", dst |-> UAdd(LoadAddr(h), h.p_filesz), src |-> U(0),
            n |-> USub(h.p_memsz, h.p_filesz)]>>
    ELSE <<>>

\* a call that writes outside the buffer or reads outside the file: undefined
Undefined(f, c) ==
    \/ ULt(U(MEM_SIZE), UAdd(c.dst, c.n))
    \/ c.call = "memcpy" /\ ~InFile(f, c.src, c.n)

Apply(m, f, c) ==
    IF c.call = "memcpy" THEN memcpy(m, c.dst, f, c.src, c.n) ELSE memset(m, c.dst, 0, c.n)

RECURSIVE ApplyAll(_, _, _)
ApplyAll(m, f, cs) ==
    IF cs = <<>> THEN m ELSE ApplyAll(Apply(m, f, Head(cs)), f, Tail(cs))

\* the calls up to and including the first undefined one
RECURSIVE UpToFault(_, _)
UpToFault(f, cs) ==
    IF cs = <<>> THEN <<>>
    ELSE IF Undefined(f, Head(cs)) THEN <<Head(cs)>>
    ELSE <<Head(cs)>> \o UpToFault(f, Tail(cs))

Logged(k, cs) == [j \in 1..Len(cs) |-> [seg |-> k, call |-> cs[j].call, dst |-> cs[j].dst, n |-> cs[j].n]]

LoadSegment ==
    /\ pc = "phdr"
    /\ ph < e_phnum(file)
    /\ LET h == phdr(file, ph)
           calls == CopyCalls(h) \o ZeroCalls(h)
       IN  IF h.p_type # U(PT_LOAD)
           THEN /\ ph' = ph + 1
                /\ UNCHANGED <<pc, exit_code, memory, writes, load_result, open_files, mapped>>
           ELSE IF OutOfBounds(LoadAddr(h), h.p_memsz)
           THEN /\ pc' = "load_failed"
                /\ load_result' = "failed"
                /\ UNCHANGED <<ph, exit_code, memory, writes, open_files, mapped>>
           ELSE \/ /\ memory' = ApplyAll(memory, file, calls)
                   /\ writes' = writes \o Logged(ph, calls)
                   /\ ph' = ph + 1
                   /\ UNCHANGED <<pc, exit_code, load_result, open_files, mapped>>
                \/ \* undefined behaviour: the process may die in the faulting call
                   /\ \E j \in 1..Len(calls) : Undefined(file, calls[j])
                   /\ memory' = ApplyAll(memory, file, UpToFault(file, calls))
                   /\ writes' = writes \o Logged(ph, UpToFault(file, calls))
                   /\ pc' = "killed"
                   /\ exit_code' = 139      \* killed by SIGSEGV
                   /\ open_files' = {}
                   /\ mapped' = FALSE
                   /\ UNCHANGED <<ph, load_result>>
    /\ UNCHANGED <<argv, file, before, top, loader, opened>>
    /\ UNCHANGED argsVars
    /\ UNCHANGED simVars

\* lines 130-131: load returns true
LoadDone ==
    /\ pc = "phdr"
    /\ ph >= e_phnum(file)
    /\ pc' = "setup"
    /\ load_result' = "ok"
    /\ UNCHANGED <<argv, file, before, exit_code, top, memory, loader, ph, writes, open_files,
                   mapped, opened>>
    /\ UNCHANGED argsVars
    /\ UNCHANGED simVars

(***************************************************************************)
(* ~ElfLoader, lines 37-44, run when main returns.                         *)
(***************************************************************************)
\* a destructor that does not close the descriptor
FilesAfterDtorKeepsFd(files) == files

FilesAfterDtor(files) == IF loader.fd >= 0 THEN files \ {"elf"} ELSE files

MappedAfterDtor == IF loader.mapped_file = "mapped" THEN FALSE ELSE mapped

\* the failure of load ignored
LoadFailedIgnored ==
    /\ pc = "load_failed"
    /\ pc' = "setup"
    /\ UNCHANGED <<argv, file, before, exit_code, top, open_files, opened>>
    /\ UNCHANGED argsVars
    /\ UNCHANGED loadVars
    /\ UNCHANGED simVars

(***************************************************************************)
(* main, lines 199-203: load returned false.                               *)
(***************************************************************************)
LoadFailed ==
    /\ pc = "load_failed"
    /\ top' = FALSE
    /\ pc' = "exit"
    /\ exit_code' = 1
    /\ open_files' = FilesAfterDtor(open_files)
    /\ mapped' = MappedAfterDtor
    /\ UNCHANGED <<argv, file, before, memory, loader, ph, writes, load_result, opened>>
    /\ UNCHANGED argsVars
    /\ UNCHANGED simVars

(***************************************************************************)
(* main, lines 205-237: the sinks and the start of the simulation.         *)
(***************************************************************************)
\* Verilated::commandArgsPlusMatch: the first argument that starts with
\* "+" and the prefix, or "" when there is none
commandArgsPlusMatch(prefix) ==
    LET hits == { k \in 1..Len(argv) : HasPrefix(argv[k], <<"+">> \o prefix) }
    IN  IF hits = {} THEN <<>> ELSE argv[CHOOSE k \in hits : \A j \in hits : k <= j]

FlagVcd == commandArgsPlusMatch(<<"v", "c", "d">>) = PlusVcd

FlagTrace == commandArgsPlusMatch(<<"t", "r", "a", "c", "e">>) = PlusTrace

\* lines 205-237 in a run whose sinks are vcd and trace
RunStart(vcd, trace) ==
    [NoRun EXCEPT !.tfp = vcd, !.trace_fd = trace, !.pc = "loop"]

Setup ==
    /\ pc = "setup"
    /\ tfp' = FlagVcd
    /\ \E fopen_ok \in (IF FlagTrace THEN BOOLEAN ELSE {FALSE}) :
        /\ trace_fd' = fopen_ok
        /\ open_files' = open_files \cup (IF FlagVcd THEN {"vcd"} ELSE {})
                                    \cup (IF fopen_ok THEN {"trace"} ELSE {})
        /\ opened' = opened \cup (IF FlagVcd THEN {"vcd"} ELSE {})
                            \cup (IF fopen_ok THEN {"trace"} ELSE {})
        /\ shadow' = [k \in Shadows |->
                         RunStart(k # "no vcd" /\ FlagVcd, k # "no trace" /\ fopen_ok)]
    /\ clk' = 0
    /\ resetn' = 0
    /\ t' = 0
    /\ cycle' = 0
    /\ timed_out' = FALSE
    /\ pc' = "loop"
    /\ UNCHANGED <<argv, file, before, exit_code, top, gotFinish, trace_valid, trace_data, vcd_out,
                   trace_out, steps, trace_at>>
    /\ UNCHANGED argsVars
    /\ UNCHANGED loadVars

(***************************************************************************)
(* main, lines 239-266: one iteration of the simulation loop.              *)
(***************************************************************************)
\* the values top->trace_data may take
TraceValues == {1, 2}

\* the loop condition with the budget test off by one
LoopGoesOnInclusive == ~gotFinish /\ cycle <= timeout_cycles

\* the loop condition without the finish test
LoopGoesOnFinished == cycle < timeout_cycles

\* the loop left once the waveform file holds 43 records
LoopGoesOnWhileDumpShort == ~gotFinish /\ cycle < timeout_cycles /\ Len(vcd_out) < 43

\* line 239
LoopGoesOn == ~gotFinish /\ cycle < timeout_cycles

\* reset released at twice the threshold
ResetnNextLate == IF t > 2 * ResetTime THEN 1 ELSE resetn

\* reset released at the threshold already
ResetnNextAtThreshold == IF t >= ResetTime THEN 1 ELSE resetn

\* lines 241-242
ResetnNext == IF t > ResetTime THEN 1 ELSE resetn

\* the clock held high once it is high
ClkNextHigh == IF clk = 0 THEN 1 ELSE clk

\* line 245
ClkNext == 1 - clk

\* every high clock level counted, reset or not
ActiveEdgeAnyReset(c, r) == c = 1

\* line 257
ActiveEdge(c, r) == c = 1 /\ r = 1

\* the trace printed on both clock levels
TraceHitAnyLevel(fd, c, r, valid) == fd /\ r = 1 /\ valid = 1

\* line 252
TraceHit(fd, c, r, valid) == fd /\ c = 1 /\ r = 1 /\ valid = 1

\* the waveform dumped on the high clock level only
VcdDumpOnHigh(c) == IF tfp /\ c = 1 THEN Append(vcd_out, t) ELSE vcd_out

\* line 249, after the clock was set to c
VcdDump(c) == IF tfp THEN Append(vcd_out, t) ELSE vcd_out

\* line 239 in run r; fin is Verilated::gotFinish()
RunGoesOn(r, fin) == ~fin /\ r.cycle < timeout_cycles

\* lines 241-265 in run r, the device driving valid and data
RunStep(r, valid, data) ==
    LET rn == IF r.t > ResetTime THEN 1 ELSE r.resetn
        c == 1 - r.clk
    IN  [r EXCEPT !.resetn = rn,
                  !.clk = c,
                  !.vcd_out = IF r.tfp THEN Append(@, r.t) ELSE @,
                  !.trace_out = IF TraceHit(r.trace_fd, c, rn, valid) THEN Append(@, data) ELSE @,
                  !.cycle = IF ActiveEdge(c, rn) THEN @ + 1 ELSE @,
                  !.t = @ + TimeStep]

Step ==
    /\ pc = "loop"
    /\ LoopGoesOn
    /\ resetn' = ResetnNext
    /\ clk' = ClkNext
    \* top->eval(): the device may call $finish and drives its trace pins
    /\ gotFinish' \in BOOLEAN
    /\ trace_valid' \in {0, 1}
    /\ trace_data' \in TraceValues
    /\ vcd_out' = VcdDump(clk')
    /\ trace_out' = IF TraceHit(trace_fd, clk', resetn', trace_valid')
                    THEN Append(trace_out, trace_data')
                    ELSE trace_out
    /\ trace_at' = IF TraceHit(trace_fd, clk', resetn', trace_valid')
                   THEN Append(trace_at, cycle)
                   ELSE trace_at
    /\ cycle' = IF ActiveEdge(clk', resetn') THEN cycle + 1 ELSE cycle
    /\ t' = t + TimeStep
    /\ steps' = steps + 1
    \* the same device, driven alike, behaves alike
    /\ shadow' = [k \in Shadows |->
                     IF shadow[k].pc = "loop" /\ RunGoesOn(shadow[k], gotFinish)
                     THEN RunStep(shadow[k], trace_valid', trace_data')
                     ELSE shadow[k]]
    /\ UNCHANGED <<argv, file, before, pc, exit_code, top, tfp, trace_fd, timed_out, open_files,
                   opened>>
    /\ UNCHANGED argsVars
    /\ UNCHANGED loadVars

(***************************************************************************)
(* main, lines 268-292: the loop is left.                                  *)
(***************************************************************************)
\* line 268
TimedOut == cycle >= timeout_cycles

\* lines 268-292 in run r
RunFinish(r) ==
    [r EXCEPT !.timed_out = r.cycle >= timeout_cycles,
              !.pc = "exit",
              !.exit_code = IF r.cycle >= timeout_cycles THEN 2 ELSE 0]

Finish ==
    /\ pc = "loop"
    /\ ~LoopGoesOn
    /\ timed_out' = TimedOut
    /\ open_files' = FilesAfterDtor(open_files \ {"vcd", "trace"})
    /\ mapped' = MappedAfterDtor
    /\ top' = FALSE
    /\ pc' = "exit"
    /\ exit_code' = IF timed_out' THEN 2 ELSE 0
    /\ shadow' = [k \in Shadows |->
                     IF shadow[k].pc = "loop" /\ ~RunGoesOn(shadow[k], gotFinish)
                     THEN RunFinish(shadow[k])
                     ELSE shadow[k]]
    /\ UNCHANGED <<argv, file, before, memory, loader, ph, writes, load_result, opened>>
    /\ UNCHANGED <<tfp, trace_fd, clk, resetn, t, cycle, gotFinish, trace_valid, trace_data,
                   vcd_out, trace_out, steps, trace_at>>
    /\ UNCHANGED argsVars

Next ==
    \/ ParseArg
    \/ ArgsDone
    \/ LoadOpen
    \/ LoadSegment
    \/ LoadDone
    \/ LoadFailed
    \/ Setup
    \/ Step
    \/ Finish

\* every command line, a few images
Init == InitWith(Argvs, FewImages, {170})

Spec == Init /\ [][Next]_vars

\* one command line, every image
OneArgv == { <<OptTimeout \o <<"1">>, ElfName>> }

InitLoad == InitWith(OneArgv, Images, Fills)

SpecLoad == InitLoad /\ [][Next]_vars

(***************************************************************************)
(* Properties.                                                             *)
(***************************************************************************)
\* the simulation loop was entered and has been left
SimOver == pc = "exit" /\ load_result = "ok"

\* C1: for every budget T >= 1, cycle never exceeds T, and a run in which the
\* device never signals finished leaves the loop with cycle = T, status
\* TIMED_OUT and exit code 2.
C1_TimeoutExact ==
    /\ (pc = "loop" \/ SimOver) => (timeout_cycles >= 1 /\ cycle <= timeout_cycles)
    /\ (SimOver /\ ~gotFinish) => (cycle = timeout_cycles /\ timed_out /\ exit_code = 2)

C1_Witness == SimOver /\ ~gotFinish /\ timeout_cycles >= 2 /\ cycle = timeout_cycles

\* C2: a run that entered the loop ends FINISHED (exit code 0) or TIMED_OUT
\* (exit code 2); TIMED_OUT only when the budget was exhausted and the device
\* did not signal finished, and FINISHED whenever the device has signaled
\* finished, also in the step in which cycle reaches the budget.
C2_FinishedWins ==
    SimOver =>
        /\ exit_code = (IF timed_out THEN 2 ELSE 0)
        /\ timed_out => (cycle >= timeout_cycles /\ ~gotFinish)
        /\ gotFinish => (~timed_out /\ exit_code = 0)

\* what the code does instead: the budget decides alone
C2_BudgetDecides ==
    SimOver =>
        /\ exit_code = (IF timed_out THEN 2 ELSE 0)
        /\ timed_out <=> cycle >= timeout_cycles
        /\ ~timed_out => gotFinish

\* the indices of the loadable program headers of image f
Loadable(f) == { k \in 0..(e_phnum(f) - 1) : phdr(f, k).p_type = U(PT_LOAD) }

\* a segment's load_address: the physical address field if non-zero, the
\* virtual address field otherwise
Placement(h) == IF h.p_paddr = U(0) THEN h.p_vaddr ELSE h.p_paddr

\* load_address + memory_size <= capacity, as the unbounded sum
Fits(h) == ULe(UAdd(Placement(h), h.p_memsz), U(MEM_SIZE))

\* a valid image's segment: no more bytes stored than allocated, and the
\* stored bytes inside the file
WellFormed(f, h) == ULe(h.p_filesz, h.p_memsz) /\ InFile(f, h.p_offset, h.p_filesz)

\* byte a lies in the stored part / the zero-filled part / the whole of h
InStored(a, h) == Within(a, Placement(h), h.p_filesz)
InBss(a, h) ==
    ULe(UAdd(Placement(h), h.p_filesz), U(a)) /\ ULt(U(a), UAdd(Placement(h), h.p_memsz))
InSegment(a, h) == Within(a, Placement(h), h.p_memsz)

Disjoint(g, h) ==
    \/ ULe(UAdd(Placement(g), g.p_memsz), Placement(h))
    \/ ULe(UAdd(Placement(h), h.p_memsz), Placement(g))

\* the buffer holds exactly image f's segments
HoldsImage(m, f) ==
    \A a \in DOMAIN m :
        /\ \A k \in Loadable(f) :
            /\ InStored(a, phdr(f, k)) =>
                  m[a] = FileByte(f, UAdd(phdr(f, k).p_offset, USub(U(a), Placement(phdr(f, k)))))
            /\ InBss(a, phdr(f, k)) => m[a] = 0
        /\ (\A k \in Loadable(f) : ~InSegment(a, phdr(f, k))) => m[a] = 0

AllFit(f) == \A k \in Loadable(f) : Fits(phdr(f, k)) /\ WellFormed(f, phdr(f, k))

NoOverlap(f) ==
    \A j, k \in Loadable(f) : j # k => Disjoint(phdr(f, j), phdr(f, k))

\* load has just returned success
Loaded == pc = "setup" /\ load_result = "ok"

\* C3 as stated: after a successful load of a valid image whose loadable
\* segments all lie within the capacity, the buffer holds each segment's
\* stored bytes, zeros in each segment's remainder and zeros elsewhere.
C3_LoadedImageAnySegments == (Loaded /\ AllFit(file)) => HoldsImage(memory, file)

\* C3, amended: the same, for images whose loadable segments occupy pairwise
\* disjoint ranges [load_address, load_address + memory_size) of the buffer.
C3_LoadedImage ==
    (Loaded /\ AllFit(file) /\ NoOverlap(file)) => HoldsImage(memory, file)

\* two segments loaded, one at its physical address, one with a zero-filled part
C3_Witness ==
    /\ Loaded /\ AllFit(file) /\ NoOverlap(file)
    /\ Cardinality(Loadable(file)) = 2
    /\ \E k \in Loadable(file) :
          phdr(file, k).p_paddr # U(0) /\ phdr(file, k).p_paddr # phdr(file, k).p_vaddr
             /\ phdr(file, k).p_filesz # U(0)
    /\ \E k \in Loadable(file) : ULt(phdr(file, k).p_filesz, phdr(file, k).p_memsz)

\* C4: for a loadable segment whose load_address + memory_size (the
\* unbounded sum of the two 32-bit fields) exceeds the capacity, load does
\* not return success, does not go on past the segment and writes no byte
\* of it.
C4_OutOfBoundsRejected ==
    \A k \in Loadable(file) :
        ~Fits(phdr(file, k)) =>
            /\ load_result # "ok"
            /\ ph <= k
            /\ \A j \in 1..Len(writes) : writes[j].seg # k

\* C5: every segment load writes has load_address + memory_size <= capacity
\* and file_size <= memory_size, and every byte load writes lies in
\* [0, capacity).
C5_WritesInsideBuffer ==
    \A j \in 1..Len(writes) :
        /\ Fits(phdr(file, writes[j].seg))
        /\ ULe(phdr(file, writes[j].seg).p_filesz, phdr(file, writes[j].seg).p_memsz)
        /\ ULe(UAdd(writes[j].dst, writes[j].n), U(MEM_SIZE))

\* C6: once load has failed, the process can only exit with code 1: the
\* clock is never toggled, the device never evaluated, and neither the
\* waveform file nor the trace file is opened.
C6_LoadFailureStopsRun ==
    load_result = "failed" =>
        /\ pc \in {"load_failed", "exit"}
        /\ pc = "exit" => exit_code = 1
        /\ steps = 0 /\ clk = 0 /\ ~gotFinish
        /\ "vcd" \notin opened /\ "trace" \notin opened /\ ~tfp /\ ~trace_fd
        /\ vcd_out = <<>> /\ trace_out = <<>>

\* a bounds failure at the second segment, with both sinks asked for
C6_Witness ==
    /\ pc = "exit" /\ load_result = "failed" /\ exit_code = 1
    /\ writes # <<>>
    /\ FlagVcd /\ FlagTrace

\* the text of a positive integer: digits only, not all of them 0
PositiveInteger(text) ==
    /\ text # <<>>
    /\ \A k \in 1..Len(text) : IsDigit(text[k])
    /\ \E k \in 1..Len(text) : text[k] # "0"

BadTimeout(a) == HasPrefix(a, OptTimeout) /\ ~PositiveInteger(Tail10(a))

\* main has read argument k
Read(k) == k < argi \/ (k = argi /\ pc # "args")

\* C7: once main has read a --timeout=N argument whose value is not a
\* positive integer, the run is lost: no device is created, no image loaded,
\* no file opened, no simulation state set up, and the exit code is 1.
C7_BadTimeoutFatal ==
    \A k \in 1..Len(argv) :
        (BadTimeout(argv[k]) /\ Read(k)) =>
            /\ ~top /\ load_result = "none" /\ opened = {} /\ steps = 0
            /\ pc \in {"args", "exit"}
            /\ pc = "exit" => exit_code = 1

\* C8: cycle is incremented exactly once in every step after which the clock
\* level is high and reset is deasserted, and changes in no other step; it
\* is 0 while reset is asserted.
C8_CycleCounting ==
    [][/\ cycle' = cycle + (IF steps' = steps + 1 /\ clk' = 1 /\ resetn' = 1 THEN 1 ELSE 0)
       /\ resetn' = 0 => cycle' = 0]_vars

C8_Witness == pc = "loop" /\ cycle = 2 /\ clk = 1 /\ resetn = 1

\* strictly increasing
Increasing(q) == \A i, j \in 1..Len(q) : i < j => q[i] < q[j]

\* C9: with the trace sink active, a step appends one record if, after the
\* evaluation, the clock is high, reset is deasserted and trace-valid is
\* asserted, and nothing otherwise; nothing else appends.  The records are
\* in strictly increasing cycle order, at most one per counted cycle, none
\* while reset is asserted.
C9_TraceRecords ==
    /\ [][IF steps' = steps + 1 /\ trace_fd /\ clk' = 1 /\ resetn' = 1 /\ trace_valid' = 1
          THEN trace_out' = Append(trace_out, trace_data') /\ trace_at' = Append(trace_at, cycle)
          ELSE trace_out' = trace_out /\ trace_at' = trace_at]_vars
    /\ [](/\ Increasing(trace_at)
          /\ Len(trace_out) <= cycle
          /\ resetn = 0 => trace_out = <<>>)

C9_Witness == trace_fd /\ Len(trace_out) = 2 /\ cycle = 2

\* C10: with the waveform sink active, every step writes one record, stamped
\* with logical_time before it is advanced; the times start at 0 and go up
\* by 5 from one record to the next.
C10_WaveformRecords ==
    /\ [][IF steps' = steps + 1 /\ tfp
          THEN vcd_out' = Append(vcd_out, t) /\ t' = t + 5
          ELSE vcd_out' = vcd_out]_vars
    /\ [](tfp => /\ Len(vcd_out) = steps
                 /\ \A k \in 1..Len(vcd_out) : vcd_out[k] = 5 * (k - 1))

C10_Witness == tfp /\ Len(vcd_out) = 44 /\ resetn = 1 /\ clk = 0

\* C11: when main has returned, every resource the run acquired is released:
\* the image file's descriptor is closed and its mapping removed, whether
\* load succeeded or failed (at open, fstat, mmap, the magic, the class or
\* the bounds of a segment), and the waveform and trace files that were
\* opened are closed, whether the loop ended by finish or by timeout.
C11_ResourcesReleased ==
    /\ pc = "exit" => (open_files = {} /\ ~mapped /\ ~top)
    /\ open_files \subseteq opened
    /\ mapped => "elf" \in open_files

\* a run that held the image and both sinks and ended by timeout
C11_Witness ==
    /\ pc = "exit" /\ exit_code = 2
    /\ opened = {"elf", "vcd", "trace"}
    /\ loader.fd >= 0 /\ loader.mapped_file = "mapped"

\* C12: the sinks do not influence the run.  In the run of the same image,
\* budget and device without the waveform sink, and in the one without the
\* trace sink, the device gets the same clock and reset inputs step by step,
\* cycle and t are the same, and so are the status and the exit code at the
\* end; the trace records are the same without the waveform sink and the
\* waveform records the same without the trace sink.
C12_SinksDoNotInterfere ==
    (pc = "loop" \/ SimOver) =>
        \A k \in Shadows :
            /\ shadow[k].pc = pc
            /\ shadow[k].clk = clk /\ shadow[k].resetn = resetn
            /\ shadow[k].cycle = cycle /\ shadow[k].t = t
            /\ shadow[k].timed_out = timed_out /\ shadow[k].exit_code = exit_code
            /\ shadow[k].tfp = (k # "no vcd" /\ tfp)
            /\ shadow[k].trace_fd = (k # "no trace" /\ trace_fd)
            /\ k = "no vcd" => shadow[k].trace_out = trace_out
            /\ k = "no trace" => shadow[k].vcd_out = vcd_out

\* a run with both sinks that wrote to both and ended by timeout
C12_Witness ==
    /\ SimOver /\ timed_out /\ tfp /\ trace_fd
    /\ Len(trace_out) = 2 /\ Len(vcd_out) = 45
    /\ ~shadow["no vcd"].tfp /\ shadow["no vcd"].vcd_out = <<>>
    /\ ~shadow["no trace"].trace_fd /\ shadow["no trace"].trace_out = <<>>

\* C13: a step that starts with t <= 200 evaluates the device with reset
\* asserted (resetn = 0); the step that starts at t = 205, the first one
\* with t > 200, and every later step evaluate it with reset deasserted;
\* resetn never goes back from 1 to 0.
C13_ResetSequencing ==
    /\ [][steps' = steps + 1 => resetn' = (IF t <= 200 THEN 0 ELSE 1)]_vars
    /\ [][resetn = 1 => resetn' = 1]_vars
    /\ [](pc = "loop" => (resetn = 1 <=> t >= 210))

\* after the step that started at t = 205: reset released, clock low
C13_Witness == pc = "loop" /\ t = 210 /\ steps = 42 /\ resetn = 1 /\ clk = 0 /\ cycle = 0

\* load returned false before it zeroed the buffer (lines 49-80)
FailedEarly ==
    /\ load_result = "failed"
    /\ (loader.mapped_file # "mapped" \/ ~MagicOk(file) \/ ~ClassOk(file))

\* load returned false at the bounds check of program header ph (line 109)
FailedAtBounds == load_result = "failed" /\ ~FailedEarly

\* the loadable segments before program header k that cover byte a
Covering(f, k, a) ==
    { j \in Loadable(f) : j < k /\ (InStored(a, phdr(f, j)) \/ InBss(a, phdr(f, j))) }

\* what segment h holds for byte a
SegmentByte(f, h, a) ==
    IF InStored(a, h) THEN FileByte(f, UAdd(h.p_offset, USub(U(a), Placement(h)))) ELSE 0

\* the buffer holds zeros and the segments before program header k, the
\* later one where two of them cover the same byte
HoldsPrefix(m, f, k) ==
    \A a \in DOMAIN m :
        LET js == Covering(f, k, a)
        IN  IF js = {} THEN m[a] = 0
            ELSE m[a] = SegmentByte(f, phdr(f, CHOOSE j \in js : \A i \in js : i <= j), a)

\* C14: after load has failed before the zeroing (open, fstat, mmap, magic,
\* class) the buffer is as it was when load was called; after it has failed
\* at the bounds check of program header k the buffer holds zeros and the
\* bytes of the loadable segments before k, in program-header order, and
\* nothing of segment k or of a later one has been written.
C14_BufferAfterFailedLoad ==
    /\ FailedEarly => (memory = before /\ writes = <<>>)
    /\ FailedAtBounds =>
          /\ HoldsPrefix(memory, file, ph)
          /\ \A j \in 1..Len(writes) : writes[j].seg < ph

\* a bounds failure at the second program header, the first segment's
\* bytes in a buffer that held something else before
C14_Witness ==
    /\ FailedAtBounds /\ ph = 1 /\ 0 \in Loadable(file)
    /\ before[0] = 170 /\ memory[0] = 17 /\ memory[4] = 0

\* C15: the simulation loop ends: with budget T >= 1, whatever the device
\* does, the loop has run at most 2*T + 41 steps, and after that many steps
\* its condition is false and main leaves it.
C15_LoopTerminates ==
    /\ (pc = "loop" \/ SimOver) => (timeout_cycles >= 1 /\ steps <= 2 * timeout_cycles + 41)
    /\ (pc = "loop" /\ steps = 2 * timeout_cycles + 41) => (~LoopGoesOn /\ ENABLED Finish)

\* the bound is reached: a device that never finishes, budget 2
C15_Witness == pc = "loop" /\ timeout_cycles = 2 /\ steps = 45 /\ ~gotFinish

\* C16: after n steps of the loop t = 5*n, the clock level is n mod 2 and
\* cycle is 0 if n <= 42 and floor((n - 41) / 2) otherwise: the first cycle
\* is counted in the step that starts at t = 210, one more every second
\* step; a run that timed out with budget T ends with t = 10*T + 205.
C16_Cadence ==
    /\ (pc = "loop" \/ SimOver) =>
          /\ t = 5 * steps
          /\ clk = steps % 2
          /\ cycle = (IF steps <= 42 THEN 0 ELSE (steps - 41) \div 2)
    /\ (pc = "loop" /\ t <= 210) => cycle = 0
    /\ (pc = "loop" /\ t = 215) => cycle = 1
    /\ (SimOver /\ timed_out) => t = 10 * timeout_cycles + 205

\* a run with budget 2 that timed out at t = 225
C16_Witness ==
    /\ SimOver /\ timed_out /\ exit_code = 2
    /\ timeout_cycles = 2 /\ t = 225 /\ clk = 1 /\ cycle = 2

\* C17: the finish flag is read at the top of an iteration only.  The step
\* in which the device signals finished is carried out in full: the waveform
\* record, the trace record if the step qualifies, the cycle counted if the
\* clock is high and reset deasserted, t advanced by 5.  After it nothing is
\* stepped, counted or recorded any more, so the cycle count and the time
\* reported are those after that step.
C17_FinishStepCompleted ==
    /\ [][(steps' = steps + 1 /\ gotFinish') =>
             /\ t' = t + 5
             /\ clk' = 1 - clk
             /\ cycle' = cycle + (IF clk' = 1 /\ resetn' = 1 THEN 1 ELSE 0)
             /\ vcd_out' = (IF tfp THEN Append(vcd_out, t) ELSE vcd_out)
             /\ trace_out' = (IF trace_fd /\ clk' = 1 /\ resetn' = 1 /\ trace_valid' = 1
                              THEN Append(trace_out, trace_data')
                              ELSE trace_out)]_vars
    /\ [][gotFinish =>
             /\ steps' = steps /\ clk' = clk /\ resetn' = resetn
             /\ t' = t /\ cycle' = cycle
             /\ vcd_out' = vcd_out /\ trace_out' = trace_out]_vars

\* the device finished in the step that counted the first of two cycles
C17_Witness ==
    /\ SimOver /\ gotFinish /\ timeout_cycles = 2 /\ exit_code = 0
    /\ steps = 43 /\ cycle = 1 /\ t = 215
    /\ Len(vcd_out) = 43 /\ Len(trace_out) = 1

\* load has read the header's fields (lines 71-94)
HeaderRead == loader.mapped_file = "mapped" /\ MagicOk(file) /\ ClassOk(file)

\* the program headers load has read
HeadersRead ==
    { k \in 0..(e_phnum(file) - 1) : HeaderRead /\ (k < ph \/ (k = ph /\ pc # "phdr")) }

\* program header k lies in the file
TableEntryInFile(f, k) == InFile(f, U(ToInt(e_phoff(f)) + PhdrSize * k), U(PhdrSize))

\* C18: load reads the image inside the file only: the header, every program
\* header it reads and the source range [p_offset, p_offset + p_filesz) of
\* every segment it copies lie within [0, file_size); an image shorter than
\* its header, or with the table or a segment's range past the end of the
\* file, is not loaded.
C18_ReadsInsideFile ==
    /\ HeaderRead => InFile(file, U(0), U(EhdrSize))
    /\ \A k \in HeadersRead : TableEntryInFile(file, k)
    /\ \A j \in 1..Len(writes) :
          writes[j].call = "memcpy" =>
              InFile(file, phdr(file, writes[j].seg).p_offset, writes[j].n)
    /\ load_result = "ok" =>
          /\ InFile(file, U(0), U(EhdrSize))
          /\ \A k \in 0..(e_phnum(file) - 1) : TableEntryInFile(file, k)
          /\ \A k \in Loadable(file) :
                InFile(file, phdr(file, k).p_offset, phdr(file, k).p_filesz)

=============================================================================
